---- MODULE Spec2Model ----
(***************************************************************************)
(* The candidate selection and ranking pipeline of arxiv-daily-digest      *)
(* (scripts/fetch_papers.py): one run of main() loads the score cache and  *)
(* the seen-id set from data/, scores the unscored papers of the filtered  *)
(* batch, ranks, selects the first unseen papers, writes the day's list    *)
(* and commits the seen ids.                                                *)
(*                                                                         *)
(* Identities are modelled as the integers 1..MaxId, ordered as the id     *)
(* strings are; 0 is the empty id.  A published date is a day number       *)
(* relative to the day of the run (0 = today, -1 = yesterday).             *)
(***************************************************************************)
EXTENDS Integers, Sequences, FiniteSets, TLC

\* ------------------------------------------------------------------ bounds
MaxId == 2
MaxBatch == 2
MaxLimit == 2

\* ------------------------------------------------------- program constants
WindowDays == 30
DefaultScore == 0
MissingScore == 0
MinScore == 0
MaxScore == 100
EmptyId == 0
Unparsable == -1000
None == -1

RECURSIVE SeqsUpTo(_, _)
SeqsUpTo(S, n) ==
  IF n = 0 THEN {<<>>}
  ELSE LET shorter == SeqsUpTo(S, n - 1)
       IN shorter \cup {Append(s, x) : s \in {t \in shorter : Len(t) = n - 1}, x \in S}

Procs == {"r1", "r2"}
SeqProcs == {"r1"}

Ids == 1..MaxId
FeedIds == 0..MaxId
\* published dates a feed may carry: unparsable, outside the window,
\* yesterday, today
FeedDates == {Unparsable, -WindowDays - 1, -1, 0}
RawPapers == [id : FeedIds, published : FeedDates]
\* integer values a rater's payload may carry in its score field
RawScores == {-5, 40, 120}
Responses == {[kind |-> "error", score |-> 0]} \cup [kind : {"json"}, score : RawScores]
Feeds == SeqsUpTo(RawPapers, MaxBatch)

EmptyMap == [x \in {} |-> 0]

VARIABLES
  scoresFile,     \* data/scores.json
  seenFile,       \* data/seen_ids.json
  papersFile,     \* data/papers/<today>.json
  pc,             \* where each run of main() stands
  base_filtered,  \* main: base_filtered
  scores,         \* main: scores
  seen,           \* main: seen
  limit,          \* main: limit
  client,         \* main: client is not None
  new_scores,     \* main: new_scores
  ranked,         \* main: ranked
  today_papers,   \* main: today_papers
  new_seen,       \* main: new_seen
  everSelected,   \* history: identities written to a daily list by earlier runs
  committedScores,\* history: every score entry ever committed, as first written
  committedSeen,  \* history: every identity ever committed to seen_ids.json
  rerun,          \* history: how this run's batch relates to the run before
  failed,         \* history: identities the rater failed for in this run
  retried,        \* history: identities scored now that failed in the run before
  okCalls,        \* history: per identity, the rater calls that returned a score
  respent,        \* history: identities the rater was called for while cached
  asked,          \* history: identities the rater was called for in this run
  atStart,        \* history: the two store files as the run found them
  xml_data,       \* parse_arxiv_response: the entries of xml_data
  all_papers,     \* main: all_papers; filter_papers: papers
  utcnow,         \* filter_papers: now, as the time of day (0 = midnight)
  content,        \* score_with_deepseek: the text of the rater's reply
  returned        \* score_with_deepseek: the value returned for content

files == <<scoresFile, seenFile, papersFile>>
locals == <<pc, base_filtered, scores, seen, limit, client, new_scores,
            ranked, today_papers, new_seen>>
hist == <<everSelected, committedScores, committedSeen, rerun, failed, retried>>
track == <<okCalls, respent, asked, atStart>>
pure == <<xml_data, all_papers, utcnow, content, returned>>
vars == <<files, locals, hist, track, pure>>

\* ------------------------------------------------------------ sequences
Range(s) == {s[i] : i \in 1..Len(s)}

IdsOf(papers) == {papers[i].id : i \in 1..Len(papers)}

\* list.sort(key=..., reverse=True) / sorted(..., reverse=True): a stable sort,
\* descending by key; elements with equal keys keep their order
RECURSIVE InsertDesc_Unstable(_, _)
InsertDesc_Unstable(s, x) ==
  IF s = <<>> THEN <<x>>
  ELSE IF Head(s).key > x.key THEN <<Head(s)>> \o InsertDesc_Unstable(Tail(s), x)
       ELSE <<x>> \o s

RECURSIVE InsertDesc(_, _)
InsertDesc(s, x) ==
  IF s = <<>> THEN <<x>>
  ELSE IF Head(s).key >= x.key THEN <<Head(s)>> \o InsertDesc(Tail(s), x)
       ELSE <<x>> \o s

RECURSIVE SortKeyed(_)
SortKeyed(s) ==
  IF s = <<>> THEN <<>>
  ELSE InsertDesc(SortKeyed(SubSeq(s, 1, Len(s) - 1)), s[Len(s)])

\* keys[i] is the sort key of s[i]
SortDesc(s, keys) ==
  LET keyed == [i \in 1..Len(s) |-> [key |-> keys[i], item |-> s[i]]]
      out == SortKeyed(keyed)
  IN [i \in 1..Len(s) |-> out[i].item]

\* sorted(seen): ascending
RECURSIVE sorted(_)
sorted(S) ==
  IF S = {} THEN <<>>
  ELSE LET m == CHOOSE x \in S : \A y \in S : x <= y
       IN <<m>> \o sorted(S \ {m})

\* ------------------------------------------------------------ the files
\* A file is missing, ok (holds a complete JSON document), empty (opened for
\* writing and truncated, nothing written yet) or partial (a prefix of a
\* document: not parsable).
NoFile(d) == [state |-> "missing", data |-> d]
Truncated(d) == [state |-> "empty", data |-> d]
Written(d) == [state |-> "ok", data |-> d]
Torn(d) == [state |-> "partial", data |-> d]

load_seen_ids(f) ==
  IF f.state = "missing" THEN {}
  ELSE IF f.state = "ok" THEN Range(f.data)
  ELSE {}

load_scores_Forgetful(f) == EmptyMap

load_scores(f) ==
  IF f.state = "missing" THEN EmptyMap
  ELSE IF f.state = "ok" THEN f.data
  ELSE EmptyMap

\* ------------------------------------------------------- pure functions
filter_papers(papers, tod) ==
  LET keep(p) == /\ p.published # Unparsable
                 /\ ~(2 * p.published < tod - 2 * WindowDays)
      filtered == SelectSeq(papers, keep)
  IN SortDesc(filtered, [i \in 1..Len(filtered) |-> filtered[i].published])

score_with_deepseek_Default(resp) ==
  IF resp.kind = "error" THEN DefaultScore
  ELSE LET score == resp.score
       IN IF score < MinScore THEN MinScore
          ELSE IF score > MaxScore THEN MaxScore ELSE score

\* ----------------------------------------------------- the rater's reply
\* The text of a reply is a sequence of tokens: prose (text without braces,
\* fences or line breaks), the ``` fence, the word json, a line break, the
\* two braces, and the members an object may hold: "score": <integer>,
\* "score": null, and a member under another key.
Tok(t) == [t |-> t, v |-> 0]
Prose == Tok("prose")
Fence == Tok("fence")
Tag == Tok("json")
Newline == Tok("nl")
Open == Tok("{")
Close == Tok("}")
ScoreMember(n) == [t |-> "score", v |-> n]
NullScore == Tok("score_null")
OtherMember == Tok("other")
MemberKinds == {"score", "score_null", "other"}

\* the reply the prompt asks for: one object with an integer score
Payload(n) == <<Open, ScoreMember(n), Close>>

\* str.find / str.rfind, 0 when the token does not occur
IndexOf(c, tok) ==
  IF \E i \in 1..Len(c) : c[i] = tok
  THEN CHOOSE i \in 1..Len(c) : c[i] = tok /\ \A j \in 1..(i - 1) : c[j] # tok
  ELSE 0

LastIndexOf(c, tok) ==
  IF \E i \in 1..Len(c) : c[i] = tok
  THEN CHOOSE i \in 1..Len(c) : c[i] = tok /\ \A j \in (i + 1)..Len(c) : c[j] # tok
  ELSE 0

RECURSIVE lstrip(_)
lstrip(c) == IF c # <<>> /\ Head(c) = Newline THEN lstrip(Tail(c)) ELSE c

RECURSIVE rstrip(_)
rstrip(c) ==
  IF c # <<>> /\ c[Len(c)] = Newline THEN rstrip(SubSeq(c, 1, Len(c) - 1)) ELSE c

strip(c) == rstrip(lstrip(c))

\* if content.startswith("```"): keep what stands between the first fence and
\* the second, and drop a leading json up to the first line break
unfence(c) ==
  IF c # <<>> /\ Head(c) = Fence
  THEN LET rest == Tail(c)
           k == IndexOf(rest, Fence)
           inner == lstrip(IF k = 0 THEN rest ELSE SubSeq(rest, 1, k - 1))
       IN IF inner # <<>> /\ Head(inner) = Tag
          THEN LET n == IndexOf(inner, Newline)
               IN IF n = 0 THEN <<>> ELSE SubSeq(inner, n + 1, Len(inner))
          ELSE inner
  ELSE c

\* from the first opening brace to the last closing brace
json_str(c) ==
  LET start == IndexOf(c, Open)
      end == LastIndexOf(c, Close)
  IN IF start # 0 /\ end # 0 /\ end > start THEN SubSeq(c, start, end) ELSE c

IsMember(tok) == tok.t \in MemberKinds

\* json.loads gives an object exactly for a pair of braces around members
\* (line breaks are white space); data is the sequence of the members
IsObject(js) ==
  LET text == SelectSeq(js, LAMBDA tok : tok # Newline)
  IN /\ Len(text) >= 2
     /\ text[1] = Open
     /\ text[Len(text)] = Close
     /\ \A i \in 2..(Len(text) - 1) : IsMember(text[i])

Members(js) == SelectSeq(js, IsMember)

\* max(0, min(100, score))
clamp_Identity(score) == score

clamp(score) ==
  IF score < MinScore THEN MinScore
  ELSE IF score > MaxScore THEN MaxScore ELSE score

\* int(data.get("score", 0)), clamped; the last member under a key is the
\* one json.loads keeps; int(None) raises
score_of(data) ==
  LET at == {i \in 1..Len(data) : data[i].t \in {"score", "score_null"}}
  IN IF at = {} THEN clamp(MissingScore)
     ELSE LET last == CHOOSE i \in at : \A j \in at : j <= i
          IN IF data[last].t = "score_null" THEN None ELSE clamp(data[last].v)

\* score_with_deepseek from the reply's text on
score_from_content(c) ==
  LET js == json_str(unfence(strip(c)))
  IN IF IsObject(js) THEN score_of(Members(js)) ELSE None

score_with_deepseek(resp) ==
  IF resp.kind = "error" THEN None
  ELSE score_from_content(Payload(resp.score))

Put(sc, pid, s) == [x \in DOMAIN sc \cup {pid} |-> IF x = pid THEN s ELSE sc[x]]

NeedsScore_Always(pid, sc) == ~(pid = EmptyId)

NeedsScore(pid, sc) == ~(pid = EmptyId \/ pid \in DOMAIN sc)

\* one call of score_with_deepseek by the loop: for which identity, whether
\* scores held the identity when the call was made, whether a score came back
RaterCall(pid, sc, s) == [id |-> pid, cached |-> pid \in DOMAIN sc, ok |-> s # None]

\* the loop gives up at the first call that returns None
RECURSIVE ScoreLoop_StopOnFailure(_, _, _, _, _)
ScoreLoop_StopOnFailure(papers, i, sc, n, resps) ==
  IF i > Len(papers) THEN [scores |-> sc, new_scores |-> n, calls |-> <<>>]
  ELSE LET pid == papers[i].id
       IN IF ~NeedsScore(pid, sc)
          THEN ScoreLoop_StopOnFailure(papers, i + 1, sc, n, resps)
          ELSE LET s == score_with_deepseek(resps[i])
                   rest == IF s # None
                           THEN ScoreLoop_StopOnFailure(papers, i + 1, Put(sc, pid, s),
                                                        n + 1, resps)
                           ELSE [scores |-> sc, new_scores |-> n, calls |-> <<>>]
               IN [rest EXCEPT !.calls = <<RaterCall(pid, sc, s)>> \o @]

\* main's scoring loop over base_filtered; resps[i] is what the rater answers
\* if it is asked about the i-th paper.  calls lists the calls the loop makes.
RECURSIVE ScoreLoop(_, _, _, _, _)
ScoreLoop(papers, i, sc, n, resps) ==
  IF i > Len(papers) THEN [scores |-> sc, new_scores |-> n, calls |-> <<>>]
  ELSE LET pid == papers[i].id
       IN IF ~NeedsScore(pid, sc) THEN ScoreLoop(papers, i + 1, sc, n, resps)
          ELSE LET s == score_with_deepseek(resps[i])
                   rest == IF s # None
                           THEN ScoreLoop(papers, i + 1, Put(sc, pid, s), n + 1, resps)
                           ELSE ScoreLoop(papers, i + 1, sc, n, resps)
               IN [rest EXCEPT !.calls = <<RaterCall(pid, sc, s)>> \o @]

paper_score(p, sc) == IF p.id \in DOMAIN sc THEN sc[p.id] ELSE DefaultScore

Rank_Ascending(papers, sc) ==
  SortDesc(papers, [i \in 1..Len(papers) |-> 0 - paper_score(papers[i], sc)])

Rank(papers, sc) ==
  SortDesc(papers, [i \in 1..Len(papers) |-> paper_score(papers[i], sc)])

Eligible_SeenIgnored(pid, sn) == ~(pid = EmptyId)

Eligible(pid, sn) == ~(pid = EmptyId) /\ ~(pid \in sn)

RECURSIVE SelectWalk_OffByOne(_, _, _, _, _)
SelectWalk_OffByOne(papers, i, sn, lim, selected) ==
  IF i > Len(papers) THEN selected
  ELSE IF ~Eligible(papers[i].id, sn)
       THEN SelectWalk_OffByOne(papers, i + 1, sn, lim, selected)
  ELSE LET sel == Append(selected, papers[i])
       IN IF Len(sel) > lim THEN sel
          ELSE SelectWalk_OffByOne(papers, i + 1, sn, lim, sel)

RECURSIVE SelectWalk(_, _, _, _, _)
SelectWalk(papers, i, sn, lim, selected) ==
  IF i > Len(papers) THEN selected
  ELSE IF ~Eligible(papers[i].id, sn) THEN SelectWalk(papers, i + 1, sn, lim, selected)
  ELSE LET sel == Append(selected, papers[i])
       IN IF Len(sel) >= lim THEN sel
          ELSE SelectWalk(papers, i + 1, sn, lim, sel)

select_unseen(papers, sn, lim) ==
  LET selected == SelectWalk(papers, 1, sn, lim, <<>>)
  IN [selected |-> selected, new_seen |-> IdsOf(selected)]

\* what filter_papers makes of the feeds, at midnight (tod = 0) and later in
\* the day (tod = 1)
Batches == {filter_papers(feed, tod) : feed \in Feeds, tod \in {0, 1}}
\* the same, of the feeds whose records were all published today
DayBatches == {b \in Batches : \A i \in 1..Len(b) : b[i].published = 0}

\* ------------------------------------------------------------------ Init
InitTrack ==
  /\ okCalls = [x \in Ids |-> 0]
  /\ respent = {}
  /\ asked = [p \in Procs |-> {}]
  /\ atStart = [scoresFile |-> NoFile(EmptyMap), seenFile |-> NoFile(<<>>)]

\* nothing is being filtered or parsed on its own
InitPure ==
  /\ xml_data = <<>>
  /\ all_papers = <<>>
  /\ utcnow = 0
  /\ content = <<>>
  /\ returned = [done |-> FALSE, value |-> None]

Init ==
  /\ scoresFile = NoFile(EmptyMap)
  /\ seenFile = NoFile(<<>>)
  /\ papersFile = NoFile(<<>>)
  /\ pc = [p \in Procs |-> "idle"]
  /\ base_filtered = [p \in Procs |-> <<>>]
  /\ scores = [p \in Procs |-> EmptyMap]
  /\ seen = [p \in Procs |-> {}]
  /\ limit = [p \in Procs |-> 1]
  /\ client = [p \in Procs |-> FALSE]
  /\ new_scores = [p \in Procs |-> 0]
  /\ ranked = [p \in Procs |-> <<>>]
  /\ today_papers = [p \in Procs |-> <<>>]
  /\ new_seen = [p \in Procs |-> {}]
  /\ everSelected = {}
  /\ committedScores = EmptyMap
  /\ committedSeen = {}
  /\ rerun = [p \in Procs |-> "fresh"]
  /\ failed = [p \in Procs |-> {}]
  /\ retried = [p \in Procs |-> {}]
  /\ InitTrack
  /\ InitPure

AtRest(p) == pc[p] \in {"idle", "done", "crashed"}

\* --------------------------------------------------------------- main()
\* main, up to the creation of the client: fetch, filter, load both stores
Load(p, batch, k, hasClient) ==
  /\ base_filtered' = [base_filtered EXCEPT ![p] = batch]
  /\ scores' = [scores EXCEPT ![p] = load_scores(scoresFile)]
  /\ seen' = [seen EXCEPT ![p] = load_seen_ids(seenFile)]
  /\ limit' = [limit EXCEPT ![p] = k]
  /\ client' = [client EXCEPT ![p] = hasClient]
  /\ new_scores' = [new_scores EXCEPT ![p] = 0]
  /\ ranked' = [ranked EXCEPT ![p] = <<>>]
  /\ today_papers' = [today_papers EXCEPT ![p] = <<>>]
  /\ new_seen' = [new_seen EXCEPT ![p] = {}]
  /\ pc' = [pc EXCEPT ![p] = IF hasClient THEN "score" ELSE "rank"]
  /\ UNCHANGED files

\* a run starts where no run of the process is under way
Begin(p, batch, k, hasClient) == AtRest(p) /\ Load(p, batch, k, hasClient)

\* if new_scores:
ScoresDirty_Never(n) == FALSE

ScoresDirty(n) == n # 0

\* if new_seen:
SeenDirty_Always(ns) == TRUE

SeenDirty(ns) == ns # {}

\* the scoring loop, and the choice whether save_scores is called
ScoreAll(p, resps) ==
  /\ pc[p] = "score"
  /\ LET r == ScoreLoop(base_filtered[p], 1, scores[p], 0, resps)
     IN /\ scores' = [scores EXCEPT ![p] = r.scores]
        /\ new_scores' = [new_scores EXCEPT ![p] = r.new_scores]
        /\ pc' = [pc EXCEPT ![p] = IF ScoresDirty(r.new_scores) THEN "open_scores"
                                     ELSE "rank"]
  /\ UNCHANGED <<files, base_filtered, seen, limit, client, ranked, today_papers,
                 new_seen>>

\* save_scores: open(path, "w") truncates the file
OpenScores(p) ==
  /\ pc[p] = "open_scores"
  /\ scoresFile' = Truncated(EmptyMap)
  /\ pc' = [pc EXCEPT ![p] = "dump_scores"]
  /\ UNCHANGED <<seenFile, papersFile, base_filtered, scores, seen, limit, client,
                 new_scores, ranked, today_papers, new_seen>>

\* save_scores: json.dump and the close of the file
DumpScores(p) ==
  /\ pc[p] = "dump_scores"
  /\ scoresFile' = Written(scores[p])
  /\ pc' = [pc EXCEPT ![p] = "rank"]
  /\ UNCHANGED <<seenFile, papersFile, base_filtered, scores, seen, limit, client,
                 new_scores, ranked, today_papers, new_seen>>

\* ranked = sorted(...); today_papers, new_seen = select_unseen(...)
RankSelect(p) ==
  /\ pc[p] = "rank"
  /\ LET r == Rank(base_filtered[p], scores[p])
         sel == select_unseen(r, seen[p], limit[p])
     IN /\ ranked' = [ranked EXCEPT ![p] = r]
        /\ today_papers' = [today_papers EXCEPT ![p] = sel.selected]
        /\ new_seen' = [new_seen EXCEPT ![p] = sel.new_seen]
  /\ pc' = [pc EXCEPT ![p] = "save_papers"]
  /\ UNCHANGED <<files, base_filtered, scores, seen, limit, client, new_scores>>

\* the daily list save_papers leaves in data/papers/<today>.json
save_papers_Nothing(papers) == Written(<<>>)

save_papers(papers) == Written(papers)

\* save_papers(today_papers, today), and the choice whether save_seen_ids is called
SavePapers(p) ==
  /\ pc[p] = "save_papers"
  /\ papersFile' = save_papers(today_papers[p])
  /\ pc' = [pc EXCEPT ![p] = IF SeenDirty(new_seen[p]) THEN "open_seen" ELSE "done"]
  /\ UNCHANGED <<scoresFile, seenFile, base_filtered, scores, seen, limit, client,
                 new_scores, ranked, today_papers, new_seen>>

\* save_seen_ids: open(path, "w") truncates the file
OpenSeen(p) ==
  /\ pc[p] = "open_seen"
  /\ seenFile' = Truncated(<<>>)
  /\ pc' = [pc EXCEPT ![p] = "dump_seen"]
  /\ UNCHANGED <<scoresFile, papersFile, base_filtered, scores, seen, limit, client,
                 new_scores, ranked, today_papers, new_seen>>

updated_seen_NewOnly(p) == new_seen[p]

updated_seen_OldOnly(p) == seen[p]

updated_seen(p) == seen[p] \cup new_seen[p]

\* save_seen_ids: json.dump(sorted(seen)) and the close of the file
DumpSeen(p) ==
  /\ pc[p] = "dump_seen"
  /\ seenFile' = Written(sorted(updated_seen(p)))
  /\ pc' = [pc EXCEPT ![p] = "done"]
  /\ UNCHANGED <<scoresFile, papersFile, base_filtered, scores, seen, limit, client,
                 new_scores, ranked, today_papers, new_seen>>

\* ------------------------------------------------- the crash-free runs
BeginRun(p) ==
  \E batch \in Batches, k \in 1..MaxLimit, hasClient \in BOOLEAN :
    Begin(p, batch, k, hasClient)

BeginDayRun(p) ==
  \E batch \in DayBatches, k \in 1..MaxLimit, hasClient \in BOOLEAN :
    Begin(p, batch, k, hasClient)

Score(p) ==
  \E resps \in [1..Len(base_filtered[p]) -> Responses] : ScoreAll(p, resps)

FirstWritten(old, new) ==
  [x \in DOMAIN old \cup DOMAIN new |-> IF x \in DOMAIN old THEN old[x] ELSE new[x]]

\* The history of the stores, read off the files as a step of run p leaves
\* them: what a daily list has held, and what each store has held once a
\* save completed.
TrackStores(p) ==
  /\ everSelected' = IF pc[p] = "save_papers"
                      THEN everSelected \cup IdsOf(papersFile'.data)
                      ELSE everSelected
  /\ committedScores' = IF pc[p] = "dump_scores" /\ scoresFile'.state = "ok"
                         THEN FirstWritten(committedScores, scoresFile'.data)
                         ELSE committedScores
  /\ committedSeen' = IF pc[p] = "dump_seen" /\ seenFile'.state = "ok"
                       THEN committedSeen \cup Range(seenFile'.data)
                       ELSE committedSeen

StoreHistory(p) == TrackStores(p) /\ UNCHANGED <<rerun, failed, retried, track, pure>>

Next ==
  \E p \in SeqProcs :
    \/ BeginRun(p) /\ StoreHistory(p)
    \/ Score(p) /\ StoreHistory(p)
    \/ OpenScores(p) /\ StoreHistory(p)
    \/ DumpScores(p) /\ StoreHistory(p)
    \/ RankSelect(p) /\ StoreHistory(p)
    \/ SavePapers(p) /\ StoreHistory(p)
    \/ OpenSeen(p) /\ StoreHistory(p)
    \/ DumpSeen(p) /\ StoreHistory(p)

Spec == Init /\ [][Next]_vars

\* ------------------------------------- runs on the batch of the run before
\* Whether the run that starts takes the batch of the run before it, and
\* whether that run selected every unseen record of the batch ("same_all") or
\* left some ("same_cut").
RerunKind(p, batch) ==
  IF pc[p] = "done" /\ batch = base_filtered[p]
  THEN IF \A i \in 1..Len(batch) :
            batch[i].id = EmptyId \/ batch[i].id \in seen[p] \cup new_seen[p]
       THEN "same_all" ELSE "same_cut"
  ELSE "fresh"

TrackRerun(p) ==
  rerun' = [rerun EXCEPT ![p] = IF AtRest(p) THEN RerunKind(p, base_filtered'[p])
                                ELSE rerun[p]]

RerunHistory(p) ==
  /\ TrackRerun(p)
  /\ UNCHANGED <<everSelected, committedScores, committedSeen, failed, retried,
                 track, pure>>

NextRerun ==
  \E p \in SeqProcs :
    \/ BeginDayRun(p) /\ RerunHistory(p)
    \/ Score(p) /\ RerunHistory(p)
    \/ OpenScores(p) /\ RerunHistory(p)
    \/ DumpScores(p) /\ RerunHistory(p)
    \/ RankSelect(p) /\ RerunHistory(p)
    \/ SavePapers(p) /\ RerunHistory(p)
    \/ OpenSeen(p) /\ RerunHistory(p)
    \/ DumpSeen(p) /\ RerunHistory(p)

\* Both stores populated by earlier runs: they hold an identity that the
\* feeds no longer carry.
OldId == MaxId + 1

InitPopulated ==
  /\ scoresFile = Written([x \in {OldId} |-> MaxScore])
  /\ seenFile = Written(<<OldId>>)
  /\ papersFile = NoFile(<<>>)
  /\ pc = [p \in Procs |-> "idle"]
  /\ base_filtered = [p \in Procs |-> <<>>]
  /\ scores = [p \in Procs |-> EmptyMap]
  /\ seen = [p \in Procs |-> {}]
  /\ limit = [p \in Procs |-> 1]
  /\ client = [p \in Procs |-> FALSE]
  /\ new_scores = [p \in Procs |-> 0]
  /\ ranked = [p \in Procs |-> <<>>]
  /\ today_papers = [p \in Procs |-> <<>>]
  /\ new_seen = [p \in Procs |-> {}]
  /\ everSelected = {}
  /\ committedScores = EmptyMap
  /\ committedSeen = {}
  /\ rerun = [p \in Procs |-> "fresh"]
  /\ failed = [p \in Procs |-> {}]
  /\ retried = [p \in Procs |-> {}]
  /\ InitTrack
  /\ InitPure

SpecRerun == InitPopulated /\ [][NextRerun]_vars

\* ------------------------------------------- runs whose rater may fail
\* the identities of the batch the loop submits to the rater: not empty, and
\* without a score when the loop starts
Submitted(p) == (IdsOf(base_filtered[p]) \ {EmptyId}) \ DOMAIN scores[p]

AnsweredAt(p, resps, x) ==
  {i \in 1..Len(base_filtered[p]) : base_filtered[p][i].id = x /\ resps[i].kind = "json"}

\* the value the rater gives for x in the first answer the loop gets for it
FirstAnswer(p, resps, x) ==
  LET i == CHOOSE i \in AnsweredAt(p, resps, x) : \A j \in AnsweredAt(p, resps, x) : i <= j
  IN resps[i].score

ScoreTracked(p) ==
  \E resps \in [1..Len(base_filtered[p]) -> Responses] :
    /\ ScoreAll(p, resps)
    /\ failed' = [failed EXCEPT ![p] =
                     {x \in Submitted(p) : AnsweredAt(p, resps, x) = {}}]
    /\ retried' = [retried EXCEPT ![p] =
                      {<<x, FirstAnswer(p, resps, x)>> :
                         x \in {y \in failed[p] \cap Submitted(p) :
                                   AnsweredAt(p, resps, y) # {}}}]
    /\ UNCHANGED <<everSelected, committedScores, committedSeen, rerun, track, pure>>

NoHistory == UNCHANGED <<hist, track, pure>>

NextRetry ==
  \E p \in SeqProcs :
    \/ BeginDayRun(p) /\ NoHistory
    \/ ScoreTracked(p)
    \/ OpenScores(p) /\ NoHistory
    \/ DumpScores(p) /\ NoHistory
    \/ RankSelect(p) /\ NoHistory
    \/ SavePapers(p) /\ NoHistory
    \/ OpenSeen(p) /\ NoHistory
    \/ DumpSeen(p) /\ NoHistory

SpecRetry == Init /\ [][NextRetry]_vars

\* ----------------------------------------------- runs that may be killed
\* The process of a run is killed.  Between the open and the close of a
\* store file, the file is left as far as it was written: still empty, or
\* holding a prefix of the document.  Killed inside save_papers, the run
\* leaves the daily list as it was or torn.
Crash(p, torn) ==
  /\ ~AtRest(p)
  /\ scoresFile' = IF pc[p] = "dump_scores" /\ torn THEN Torn(EmptyMap) ELSE scoresFile
  /\ seenFile' = IF pc[p] = "dump_seen" /\ torn THEN Torn(<<>>) ELSE seenFile
  /\ pc' = [pc EXCEPT ![p] = "crashed"]
  /\ base_filtered' = [base_filtered EXCEPT ![p] = <<>>]
  /\ scores' = [scores EXCEPT ![p] = EmptyMap]
  /\ seen' = [seen EXCEPT ![p] = {}]
  /\ new_scores' = [new_scores EXCEPT ![p] = 0]
  /\ ranked' = [ranked EXCEPT ![p] = <<>>]
  /\ today_papers' = [today_papers EXCEPT ![p] = <<>>]
  /\ new_seen' = [new_seen EXCEPT ![p] = {}]
  /\ limit' = [limit EXCEPT ![p] = 1]
  /\ client' = [client EXCEPT ![p] = FALSE]
  /\ papersFile' = IF pc[p] = "save_papers" /\ torn THEN Torn(<<>>) ELSE papersFile

CrashRun(p) == \E torn \in BOOLEAN : Crash(p, torn)

NextCrash ==
  \E p \in SeqProcs :
    \/ BeginDayRun(p) /\ NoHistory
    \/ Score(p) /\ NoHistory
    \/ OpenScores(p) /\ NoHistory
    \/ DumpScores(p) /\ NoHistory
    \/ RankSelect(p) /\ NoHistory
    \/ SavePapers(p) /\ NoHistory
    \/ OpenSeen(p) /\ NoHistory
    \/ DumpSeen(p) /\ NoHistory
    \/ CrashRun(p) /\ NoHistory

SpecCrash == Init /\ [][NextCrash]_vars

\* -------------------------------------- runs with the rater's calls logged
\* a run starts: the store files as it finds them
AuditBegin(p) ==
  /\ atStart' = [scoresFile |-> scoresFile, seenFile |-> seenFile]
  /\ asked' = [asked EXCEPT ![p] = {}]
  /\ failed' = [failed EXCEPT ![p] = {}]
  /\ UNCHANGED <<okCalls, respent, everSelected, committedScores, committedSeen,
                 rerun, retried, pure>>

\* the scoring loop, with the calls it makes added to the log
ScoreAudited(p) ==
  \E resps \in [1..Len(base_filtered[p]) -> Responses] :
    /\ ScoreAll(p, resps)
    /\ LET calls == ScoreLoop(base_filtered[p], 1, scores[p], 0, resps).calls
           at(x) == {i \in 1..Len(calls) : calls[i].id = x}
           won(x) == Cardinality({i \in at(x) : calls[i].ok})
       IN /\ okCalls' = [x \in Ids |-> IF okCalls[x] + won(x) > 2 THEN 2
                                         ELSE okCalls[x] + won(x)]
          /\ respent' = respent \cup
                {calls[i].id : i \in {j \in 1..Len(calls) :
                     \/ calls[j].cached
                     \/ calls[j].id \in DOMAIN load_scores(scoresFile)}}
          /\ asked' = [asked EXCEPT ![p] = {calls[i].id : i \in 1..Len(calls)}]
          /\ failed' = [failed EXCEPT ![p] =
                           {calls[i].id : i \in 1..Len(calls)} \
                           {calls[i].id : i \in {j \in 1..Len(calls) : calls[j].ok}}]
    /\ UNCHANGED <<atStart, everSelected, committedScores, committedSeen, rerun,
                   retried, pure>>

NextAudit ==
  \E p \in SeqProcs :
    \/ BeginDayRun(p) /\ AuditBegin(p)
    \/ ScoreAudited(p)
    \/ OpenScores(p) /\ NoHistory
    \/ DumpScores(p) /\ NoHistory
    \/ RankSelect(p) /\ NoHistory
    \/ SavePapers(p) /\ NoHistory
    \/ OpenSeen(p) /\ NoHistory
    \/ DumpSeen(p) /\ NoHistory

SpecAudit == Init /\ [][NextAudit]_vars

\* every run is carried on to its end
SpecAuditFair == SpecAudit /\ WF_vars(NextAudit)

\* ------------------------------------------- two runs at the same time
\* Two processes run main() once each over the same data/ directory, with
\* the same config.yaml and the same feed; their steps interleave.  Nothing in
\* main() locks the files.
BeginOnce(p) ==
  /\ pc[p] = "idle"
  /\ \E batch \in DayBatches, k \in 1..MaxLimit, hasClient \in BOOLEAN :
       /\ \A q \in Procs \ {p} :
            pc[q] # "idle" => batch = base_filtered[q] /\ k = limit[q]
       /\ Begin(p, batch, k, hasClient)

NextConcurrent ==
  \E p \in Procs :
    \/ BeginOnce(p) /\ NoHistory
    \/ Score(p) /\ NoHistory
    \/ OpenScores(p) /\ NoHistory
    \/ DumpScores(p) /\ NoHistory
    \/ RankSelect(p) /\ NoHistory
    \/ SavePapers(p) /\ NoHistory
    \/ OpenSeen(p) /\ NoHistory
    \/ DumpSeen(p) /\ NoHistory

SpecConcurrent == Init /\ [][NextConcurrent]_vars

\* ------------------------- runs that may be killed, with what they output
\* the identities that a completed save_papers has written to a daily list
TrackOutput(p) ==
  /\ everSelected' = IF pc[p] = "save_papers" /\ papersFile'.state = "ok"
                      THEN everSelected \cup IdsOf(papersFile'.data)
                      ELSE everSelected
  /\ UNCHANGED <<committedScores, committedSeen, rerun, failed, retried, track, pure>>

NextCommit ==
  \E p \in SeqProcs :
    \/ BeginDayRun(p) /\ TrackOutput(p)
    \/ Score(p) /\ TrackOutput(p)
    \/ OpenScores(p) /\ TrackOutput(p)
    \/ DumpScores(p) /\ TrackOutput(p)
    \/ RankSelect(p) /\ TrackOutput(p)
    \/ SavePapers(p) /\ TrackOutput(p)
    \/ OpenSeen(p) /\ TrackOutput(p)
    \/ DumpSeen(p) /\ TrackOutput(p)
    \/ CrashRun(p) /\ TrackOutput(p)

SpecCommit == Init /\ [][NextCommit]_vars

\* ------------------------------------- the parsing of a reply on its own
\* The text of the reply drawn at once: up to MaxReply pieces, each a piece
\* of prose, a fence, the word json, a line break, a lone brace or a whole
\* object.
MaxReply == 4

MemberSeqs ==
  {<<>>, <<OtherMember>>, <<NullScore>>, <<OtherMember, ScoreMember(40)>>}
    \cup {<<ScoreMember(n)>> : n \in RawScores}
Blocks == {<<Open>> \o m \o <<Close>> : m \in MemberSeqs}
Pieces == {<<Prose>>, <<Fence>>, <<Tag>>, <<Newline>>, <<Open>>, <<Close>>} \cup Blocks

RECURSIVE Flatten(_)
Flatten(ss) == IF ss = <<>> THEN <<>> ELSE Head(ss) \o Flatten(Tail(ss))

Replies == {Flatten(ss) : ss \in SeqsUpTo(Pieces, MaxReply)}

InitParse ==
  /\ scoresFile = NoFile(EmptyMap)
  /\ seenFile = NoFile(<<>>)
  /\ papersFile = NoFile(<<>>)
  /\ pc = [p \in Procs |-> "idle"]
  /\ base_filtered = [p \in Procs |-> <<>>]
  /\ scores = [p \in Procs |-> EmptyMap]
  /\ seen = [p \in Procs |-> {}]
  /\ limit = [p \in Procs |-> 1]
  /\ client = [p \in Procs |-> FALSE]
  /\ new_scores = [p \in Procs |-> 0]
  /\ ranked = [p \in Procs |-> <<>>]
  /\ today_papers = [p \in Procs |-> <<>>]
  /\ new_seen = [p \in Procs |-> {}]
  /\ everSelected = {}
  /\ committedScores = EmptyMap
  /\ committedSeen = {}
  /\ rerun = [p \in Procs |-> "fresh"]
  /\ failed = [p \in Procs |-> {}]
  /\ retried = [p \in Procs |-> {}]
  /\ InitTrack
  /\ xml_data = <<>>
  /\ all_papers = <<>>
  /\ utcnow = 0
  /\ content \in Replies
  /\ returned = [done |-> FALSE, value |-> None]

\* score_with_deepseek, from the reply on, to its return
ParseReply ==
  /\ ~returned.done
  /\ returned' = [done |-> TRUE, value |-> score_from_content(content)]
  /\ UNCHANGED <<files, locals, hist, track, xml_data, all_papers, utcnow, content>>

NextParse == ParseReply

SpecParse == InitParse /\ [][NextParse]_vars

\* ------------------------------------ the parsing of the feed on its own
\* An entry of the feed, by its id, title and summary elements: the element
\* is absent, or its text is nil (an empty element), " " (white space only)
\* or "text".
RawFields == {"absent", "nil", " ", "text"}
FeedEntries == [id : RawFields, title : RawFields, summary : RawFields]
XmlFeeds == SeqsUpTo(FeedEntries, MaxBatch)

\* entry.find(...).text: raises for an absent element
ElementText(f) == IF f = "absent" THEN "raise" ELSE f

\* re.search on None raises; text without an arXiv number is returned as it is
extract_arxiv_id(url) ==
  IF url = "raise" \/ url = "nil" THEN "raise" ELSE url

clean_text(text) ==
  IF text = "raise" THEN "raise"
  ELSE IF text = "nil" THEN ""
  ELSE IF text = " " THEN "" ELSE text

\* the dict built for one entry
PaperOf(e) ==
  [id |-> extract_arxiv_id(ElementText(e.id)),
   title |-> clean_text(ElementText(e.title)),
   abstract |-> clean_text(ElementText(e.summary))]

Raises(e) == "raise" \in {PaperOf(e).id, PaperOf(e).title, PaperOf(e).abstract}

\* nothing in the loop catches: one entry that raises ends the function
parse_arxiv_response(entries) ==
  IF \E i \in 1..Len(entries) : Raises(entries[i])
  THEN [raised |-> TRUE, papers |-> <<>>]
  ELSE [raised |-> FALSE, papers |-> [i \in 1..Len(entries) |-> PaperOf(entries[i])]]

InitFeed ==
  /\ scoresFile = NoFile(EmptyMap)
  /\ seenFile = NoFile(<<>>)
  /\ papersFile = NoFile(<<>>)
  /\ pc = [p \in Procs |-> IF p \in SeqProcs THEN "fetch" ELSE "idle"]
  /\ base_filtered = [p \in Procs |-> <<>>]
  /\ scores = [p \in Procs |-> EmptyMap]
  /\ seen = [p \in Procs |-> {}]
  /\ limit = [p \in Procs |-> 1]
  /\ client = [p \in Procs |-> FALSE]
  /\ new_scores = [p \in Procs |-> 0]
  /\ ranked = [p \in Procs |-> <<>>]
  /\ today_papers = [p \in Procs |-> <<>>]
  /\ new_seen = [p \in Procs |-> {}]
  /\ everSelected = {}
  /\ committedScores = EmptyMap
  /\ committedSeen = {}
  /\ rerun = [p \in Procs |-> "fresh"]
  /\ failed = [p \in Procs |-> {}]
  /\ retried = [p \in Procs |-> {}]
  /\ InitTrack
  /\ xml_data \in XmlFeeds
  /\ all_papers = <<>>
  /\ utcnow = 0
  /\ content = <<>>
  /\ returned = [done |-> FALSE, value |-> None]

\* all_papers = fetch_arxiv_papers(...): the exception of the parser is not
\* caught in main
Fetch(p) ==
  /\ pc[p] = "fetch"
  /\ LET r == parse_arxiv_response(xml_data)
     IN /\ all_papers' = r.papers
        /\ pc' = [pc EXCEPT ![p] = IF r.raised THEN "raised" ELSE "fetched"]
  /\ UNCHANGED <<files, base_filtered, scores, seen, limit, client, new_scores,
                 ranked, today_papers, new_seen, hist, track, xml_data, utcnow,
                 content, returned>>

NextFeed == \E p \in SeqProcs : Fetch(p)

SpecFeed == InitFeed /\ [][NextFeed]_vars

\* -------------------------------------------- the filter on its own
\* The feed and the time of day drawn at once; the dates of a feed lie on
\* both sides of both ends of the window.
FilterDates == {Unparsable, -WindowDays - 1, -WindowDays, -WindowDays + 1, -1, 0, 1}
FilterFeeds == SeqsUpTo([id : Ids, published : FilterDates], MaxBatch)

InitFilter ==
  /\ scoresFile = NoFile(EmptyMap)
  /\ seenFile = NoFile(<<>>)
  /\ papersFile = NoFile(<<>>)
  /\ pc = [p \in Procs |-> IF p \in SeqProcs THEN "filter" ELSE "idle"]
  /\ base_filtered = [p \in Procs |-> <<>>]
  /\ scores = [p \in Procs |-> EmptyMap]
  /\ seen = [p \in Procs |-> {}]
  /\ limit = [p \in Procs |-> 1]
  /\ client = [p \in Procs |-> FALSE]
  /\ new_scores = [p \in Procs |-> 0]
  /\ ranked = [p \in Procs |-> <<>>]
  /\ today_papers = [p \in Procs |-> <<>>]
  /\ new_seen = [p \in Procs |-> {}]
  /\ everSelected = {}
  /\ committedScores = EmptyMap
  /\ committedSeen = {}
  /\ rerun = [p \in Procs |-> "fresh"]
  /\ failed = [p \in Procs |-> {}]
  /\ retried = [p \in Procs |-> {}]
  /\ InitTrack
  /\ xml_data = <<>>
  /\ all_papers \in FilterFeeds
  /\ utcnow \in {0, 1}
  /\ content = <<>>
  /\ returned = [done |-> FALSE, value |-> None]

\* base_filtered = filter_papers(all_papers, config)
Filter(p) ==
  /\ pc[p] = "filter"
  /\ base_filtered' = [base_filtered EXCEPT ![p] = filter_papers(all_papers, utcnow)]
  /\ pc' = [pc EXCEPT ![p] = "filtered"]
  /\ UNCHANGED <<files, scores, seen, limit, client, new_scores, ranked, today_papers,
                 new_seen, hist, track, pure>>

NextFilter == \E p \in SeqProcs : Filter(p)

SpecFilter == InitFilter /\ [][NextFilter]_vars

\* ------------------------------------- one run, from the feed to its end
\* The feed, the time of day and the seen-id file drawn at once, the score
\* cache empty; then main() from filter_papers on.
SeenFiles == {NoFile(<<>>)} \cup {Written(sorted(S)) : S \in (SUBSET Ids) \ {{}}}

InitWholeRun ==
  /\ scoresFile = NoFile(EmptyMap)
  /\ seenFile \in SeenFiles
  /\ papersFile = NoFile(<<>>)
  /\ pc = [p \in Procs |-> IF p \in SeqProcs THEN "filter" ELSE "idle"]
  /\ base_filtered = [p \in Procs |-> <<>>]
  /\ scores = [p \in Procs |-> EmptyMap]
  /\ seen = [p \in Procs |-> {}]
  /\ limit = [p \in Procs |-> 1]
  /\ client = [p \in Procs |-> FALSE]
  /\ new_scores = [p \in Procs |-> 0]
  /\ ranked = [p \in Procs |-> <<>>]
  /\ today_papers = [p \in Procs |-> <<>>]
  /\ new_seen = [p \in Procs |-> {}]
  /\ everSelected = {}
  /\ committedScores = EmptyMap
  /\ committedSeen = {}
  /\ rerun = [p \in Procs |-> "fresh"]
  /\ failed = [p \in Procs |-> {}]
  /\ retried = [p \in Procs |-> {}]
  /\ InitTrack
  /\ xml_data = <<>>
  /\ all_papers \in FilterFeeds
  /\ utcnow \in {0, 1}
  /\ content = <<>>
  /\ returned = [done |-> FALSE, value |-> None]

\* main after filter_papers: load both stores, read the limit, make the client
LoadFiltered(p) ==
  /\ pc[p] = "filtered"
  /\ \E k \in 1..MaxLimit, hasClient \in BOOLEAN :
       Load(p, base_filtered[p], k, hasClient)

NextWholeRun ==
  \E p \in SeqProcs :
    \/ Filter(p)
    \/ LoadFiltered(p) /\ AuditBegin(p)
    \/ ScoreAudited(p)
    \/ OpenScores(p) /\ NoHistory
    \/ DumpScores(p) /\ NoHistory
    \/ RankSelect(p) /\ NoHistory
    \/ SavePapers(p) /\ NoHistory
    \/ OpenSeen(p) /\ NoHistory
    \/ DumpSeen(p) /\ NoHistory

SpecWholeRun == InitWholeRun /\ [][NextWholeRun]_vars

\* ------------------------------------- ranking and selection on their own
\* The inputs of ranking and selection drawn at once: a date-sorted batch, a
\* loaded score cache, a loaded seen set and a limit.
RankMaxId == 3
RankMaxLen == 3

RankIds == 1..RankMaxId
RankPapers == [id : RankIds, published : {-1, 0}]
RankBatches == {filter_papers(feed, 0) : feed \in SeqsUpTo(RankPapers, RankMaxLen)}
StoredScores == {score_with_deepseek(r) : r \in Responses} \ {None}
ScoreMaps == UNION {[D -> StoredScores] : D \in SUBSET RankIds}

InitRank ==
  /\ scoresFile = NoFile(EmptyMap)
  /\ seenFile = NoFile(<<>>)
  /\ papersFile = NoFile(<<>>)
  /\ pc = [p \in Procs |-> IF p \in SeqProcs THEN "rank" ELSE "idle"]
  /\ \E batch \in RankBatches :
       base_filtered = [p \in Procs |-> IF p \in SeqProcs THEN batch ELSE <<>>]
  /\ \E sc \in ScoreMaps :
       scores = [p \in Procs |-> IF p \in SeqProcs THEN sc ELSE EmptyMap]
  /\ \E sn \in SUBSET RankIds :
       seen = [p \in Procs |-> IF p \in SeqProcs THEN sn ELSE {}]
  /\ \E k \in 1..MaxLimit : limit = [p \in Procs |-> IF p \in SeqProcs THEN k ELSE 1]
  /\ client = [p \in Procs |-> FALSE]
  /\ new_scores = [p \in Procs |-> 0]
  /\ ranked = [p \in Procs |-> <<>>]
  /\ today_papers = [p \in Procs |-> <<>>]
  /\ new_seen = [p \in Procs |-> {}]
  /\ everSelected = {}
  /\ committedScores = EmptyMap
  /\ committedSeen = {}
  /\ rerun = [p \in Procs |-> "fresh"]
  /\ failed = [p \in Procs |-> {}]
  /\ retried = [p \in Procs |-> {}]
  /\ InitTrack
  /\ InitPure

NextRank == \E p \in SeqProcs : RankSelect(p) /\ NoHistory

SpecRank == InitRank /\ [][NextRank]_vars

\* ================================================================ claims
Selected(p) == pc[p] \in {"save_papers", "open_seen", "dump_seen", "done"}

Min(a, b) == IF a <= b THEN a ELSE b

\* C1: a run selects no identity of the seen set it loaded, and no identity
\* that an earlier run wrote to a daily list.
C1_NoReselection ==
  \A p \in Procs :
    pc[p] = "save_papers" =>
      /\ IdsOf(today_papers[p]) \cap seen[p] = {}
      /\ IdsOf(today_papers[p]) \cap everSelected = {}

C1_Witness ==
  \E p \in Procs :
    /\ pc[p] = "save_papers"
    /\ today_papers[p] # <<>>
    /\ IdsOf(base_filtered[p]) \cap seen[p] # {}
    /\ IdsOf(base_filtered[p]) \cap everSelected # {}

\* C2: when a run is done, seen_ids.json holds every identity it held when
\* the run loaded it, and every identity any earlier save put there.
C2_SeenGrows ==
  \A p \in Procs :
    pc[p] = "done" =>
      /\ seen[p] \subseteq load_seen_ids(seenFile)
      /\ committedSeen \subseteq load_seen_ids(seenFile)

C2_Witness ==
  \E p \in Procs :
    /\ pc[p] = "done"
    /\ seen[p] # {}
    /\ new_seen[p] # {}
    /\ load_seen_ids(seenFile) = seen[p] \cup new_seen[p]

\* C3: outside a save of scores.json, every score entry ever saved is in the
\* file with the value it was first saved with.
C3_ScoresImmutable ==
  (\A p \in Procs : pc[p] # "dump_scores") =>
    \A x \in DOMAIN committedScores :
      /\ x \in DOMAIN load_scores(scoresFile)
      /\ load_scores(scoresFile)[x] = committedScores[x]

C3_Witness ==
  \E p \in Procs :
    /\ pc[p] = "rank"
    /\ new_scores[p] > 0
    /\ Cardinality(DOMAIN scores[p]) > new_scores[p]
    /\ \E i \in 1..Len(base_filtered[p]) :
         /\ base_filtered[p][i].id \in DOMAIN scores[p]
         /\ \E j \in 1..Len(base_filtered[p]) :
              /\ base_filtered[p][j].id \in DOMAIN scores[p]
              /\ scores[p][base_filtered[p][j].id] # scores[p][base_filtered[p][i].id]
    /\ scoresFile = Written(scores[p])

\* the positions of a sequence of papers that hold an unseen, eligible record
UnseenAt(papers, sn) ==
  {i \in 1..Len(papers) : papers[i].id # EmptyId /\ papers[i].id \notin sn}

\* C4: select_unseen returns at most limit items (limit >= 1), and fewer
\* than limit only when the ranked sequence holds fewer than limit unseen
\* eligible records.
C4_SelectionBound ==
  \A p \in Procs :
    Selected(p) =>
      /\ Len(today_papers[p]) <= limit[p]
      /\ Len(today_papers[p]) < limit[p] =>
           Cardinality(UnseenAt(ranked[p], seen[p])) < limit[p]

C4_Witness ==
  \E p \in Procs :
    /\ Selected(p)
    /\ Len(today_papers[p]) = limit[p]
    /\ Cardinality(UnseenAt(ranked[p], seen[p])) > limit[p]
    /\ seen[p] # {}

EffectiveScore(p, paper) ==
  IF paper.id \in DOMAIN scores[p] THEN scores[p][paper.id] ELSE 0

\* C5: the ranked sequence is ordered by effective score descending, then by
\* published date descending, then by identity ascending: of two records,
\* the one ranked first has the higher score, or the same score and the later
\* date, or the same score and date and the smaller or equal identity.
C5_RankedTotalOrder ==
  \A p \in Procs :
    pc[p] = "save_papers" =>
      \A i, j \in 1..Len(ranked[p]) :
        i < j =>
          LET A == ranked[p][i]
              B == ranked[p][j]
              sA == EffectiveScore(p, A)
              sB == EffectiveScore(p, B)
          IN \/ sA > sB
             \/ sA = sB /\ A.published > B.published
             \/ sA = sB /\ A.published = B.published /\ A.id <= B.id

\* The two levels of C5 that the stable sorts do give: effective score
\* descending, then published date descending.
RankedByScoreThenDate ==
  \A p \in Procs :
    pc[p] = "save_papers" =>
      \A i, j \in 1..Len(ranked[p]) :
        i < j =>
          LET A == ranked[p][i]
              B == ranked[p][j]
              sA == EffectiveScore(p, A)
              sB == EffectiveScore(p, B)
          IN sA > sB \/ (sA = sB /\ A.published >= B.published)

\* the batch of run p holds distinct identities, each with a score in the
\* cache when the run loaded it, and the scores are distinct
PreScoredDistinct(p) ==
  LET B == base_filtered[p]
  IN /\ new_scores[p] = 0
     /\ \A i \in 1..Len(B) : B[i].id \in DOMAIN scores[p]
     /\ \A i, j \in 1..Len(B) :
          i # j => /\ B[i].id # B[j].id
                   /\ scores[p][B[i].id] # scores[p][B[j].id]

\* C6: on such a batch the selection is the min(limit, number of unseen)
\* highest-scored unseen records, in descending score order.
C6_TopUnseenByScore ==
  \A p \in Procs :
    (pc[p] = "save_papers" /\ PreScoredDistinct(p)) =>
      LET B == base_filtered[p]
          T == today_papers[p]
          U == {i \in 1..Len(B) : B[i].id \notin seen[p]}
      IN /\ Len(T) = Min(limit[p], Cardinality(U))
         /\ \A k \in 1..Len(T) : \E i \in U : T[k] = B[i]
         /\ \A k \in 1..(Len(T) - 1) :
              scores[p][T[k].id] > scores[p][T[k + 1].id]
         /\ \A i \in U :
              B[i] \notin Range(T) =>
                \A k \in 1..Len(T) : scores[p][B[i].id] < scores[p][T[k].id]

C6_Witness ==
  \E p \in Procs :
    /\ pc[p] = "save_papers"
    /\ PreScoredDistinct(p)
    /\ Len(base_filtered[p]) = 3
    /\ ranked[p] # base_filtered[p]
    /\ ranked[p][1].id \in seen[p]
    /\ Len(today_papers[p]) = limit[p]
    /\ Cardinality({i \in 1..3 : base_filtered[p][i].id \notin seen[p]}) > limit[p]

\* the stores were populated when run p loaded them
Populated(p) == seen[p] # {} /\ Cardinality(DOMAIN scores[p]) > new_scores[p]

\* C7 as stated: a run that starts from populated stores on the batch of the
\* run before it selects nothing.
C7_SecondRunEmpty ==
  \A p \in Procs :
    (pc[p] = "save_papers" /\ rerun[p] # "fresh" /\ Populated(p)) =>
      today_papers[p] = <<>>

\* C7 amended: a run on the batch of the run before it selects nothing when
\* that run selected every unseen record of the batch.
C7_SecondRunEmptyIfAllTaken ==
  \A p \in Procs :
    (pc[p] = "save_papers" /\ rerun[p] = "same_all") =>
      today_papers[p] = <<>>

C7_Witness ==
  \E p \in Procs :
    /\ pc[p] = "save_papers"
    /\ rerun[p] = "same_all"
    /\ Populated(p)
    /\ papersFile.state = "ok"
    /\ papersFile.data # <<>>
    /\ IdsOf(papersFile.data) \subseteq IdsOf(base_filtered[p])
    /\ today_papers[p] = <<>>

Scored(p) ==
  client[p] /\ pc[p] \in {"rank", "save_papers", "open_seen", "dump_seen", "done"}

Clamped(raw) == IF raw < 0 THEN 0 ELSE IF raw > 100 THEN 100 ELSE raw

\* C8: once the scoring of a run and its save are over, the identities the
\* rater failed for have no entry in scores.json while the other identities
\* of the batch have one; and an identity that failed in the run before and
\* is answered in this run has its entry, with the rater's (clamped) value.
C8_RetryByAbsence ==
  \A p \in Procs :
    Scored(p) =>
      /\ \A x \in failed[p] : x \notin DOMAIN load_scores(scoresFile)
      /\ \A x \in (IdsOf(base_filtered[p]) \ {EmptyId}) \ failed[p] :
           x \in DOMAIN load_scores(scoresFile)
      /\ \A r \in retried[p] :
           /\ r[1] \in DOMAIN load_scores(scoresFile)
           /\ load_scores(scoresFile)[r[1]] = Clamped(r[2])

C8_Witness ==
  \E p \in Procs :
    /\ Scored(p)
    /\ retried[p] # {}
    /\ failed[p] # {}
    /\ new_scores[p] > 0

\* C9: no run reaches a save while scores.json or seen_ids.json, as the run
\* found it, is present and unparsable.
C9_CorruptStoreAborts ==
  \A p \in Procs :
    pc[p] \in {"open_scores", "dump_scores", "open_seen", "dump_seen"} =>
      scoresFile.state # "partial" /\ seenFile.state # "partial"

\* C10: whenever no save is between its open and its close, both store files
\* are missing or hold a complete document.
C10_CrashKeepsCommitted ==
  (\A p \in Procs : pc[p] \notin {"dump_scores", "dump_seen"}) =>
    /\ scoresFile.state \in {"missing", "ok"}
    /\ seenFile.state \in {"missing", "ok"}

\* C11: within a run the seen-id file is written only by save_seen_ids, after
\* selection is complete and save_papers has written the day's list; a step
\* taken earlier in the run, a kill included, leaves the file as it was, and
\* every identity the file holds has been written to a daily list.
C11_CommitAfterOutput ==
  [][/\ seenFile' # seenFile =>
          \E p \in Procs :
            /\ pc[p] \in {"open_seen", "dump_seen"}
            /\ papersFile = Written(today_papers[p])
            /\ new_seen[p] = IdsOf(today_papers[p])
      /\ load_seen_ids(seenFile') \subseteq everSelected']_vars

\* a run was killed after its list was written and before its identities
\* were committed
C11_Witness ==
  \E p \in Procs :
    /\ pc[p] = "crashed"
    /\ seenFile.state = "ok"
    /\ seenFile.data # <<>>
    /\ papersFile.state = "ok"
    /\ ~(IdsOf(papersFile.data) \subseteq load_seen_ids(seenFile))

\* C12: the rater is never called for an identity that has an entry in the
\* score cache, loaded or on disk, and over any sequence of runs no identity
\* gets more than one call that returns a score.
C12_NoRescoring ==
  /\ respent = {}
  /\ \A x \in Ids : okCalls[x] <= 1

\* a run with a rater whose batch holds an identity scored by an earlier run,
\* after its scoring loop: the rater was not called for it
C12_Witness ==
  \E p \in Procs : \E x \in Ids :
    /\ pc[p] = "rank"
    /\ client[p]
    /\ x \in IdsOf(base_filtered[p])
    /\ x \in DOMAIN load_scores(atStart.scoresFile)
    /\ okCalls[x] = 1
    /\ x \notin asked[p]

\* the identities of the batch without a score when the run started
Unscored(p) ==
  (IdsOf(base_filtered[p]) \ {EmptyId}) \ DOMAIN load_scores(atStart.scoresFile)

AfterScoring(p) == client[p] /\ pc[p] \notin {"idle", "score"}

\* C13: a rater failure for one record does not end the loop: the rater is
\* called for every identity of the batch that had no score, every identity
\* it answered for is scored, and the run goes on through ranking, selection
\* and the writes to its end.
C13_FailureIsolated ==
  \A p \in SeqProcs :
    (AfterScoring(p) /\ failed[p] # {}) ~>
      /\ pc[p] = "done"
      /\ asked[p] = Unscored(p)
      /\ \A x \in asked[p] \ failed[p] : x \in DOMAIN scores[p]

\* the rater failed for the first record of the batch and scored the second;
\* the run is done
C13_Witness ==
  \E p \in Procs :
    /\ pc[p] = "done"
    /\ client[p]
    /\ Len(base_filtered[p]) = 2
    /\ base_filtered[p][1].id \in failed[p]
    /\ base_filtered[p][2].id \in asked[p] \ failed[p]
    /\ base_filtered[p][2].id \in DOMAIN load_scores(scoresFile)

\* C14: when two runs over the same stores overlap in time, no identity is
\* in the selection of both.
C14_NoDoubleSelection ==
  \A p, q \in Procs :
    (p # q /\ Selected(p) /\ Selected(q)) =>
      IdsOf(today_papers[p]) \cap IdsOf(today_papers[q]) = {}

\* C15: a run that scores nothing new and selects nothing new reaches its
\* end, and both store files are then exactly as the run found them.
C15_QuietRunWritesNothing ==
  \A p \in Procs :
    (pc[p] = "done" /\ new_scores[p] = 0 /\ new_seen[p] = {}) =>
      /\ scoresFile = atStart.scoresFile
      /\ seenFile = atStart.seenFile

\* a run with a rater, on a batch whose records are all scored and all seen
C15_Witness ==
  \E p \in Procs :
    /\ pc[p] = "done"
    /\ client[p]
    /\ new_scores[p] = 0
    /\ new_seen[p] = {}
    /\ IdsOf(base_filtered[p]) \ {EmptyId} # {}
    /\ scoresFile.state = "ok"
    /\ seenFile.state = "ok"

\* C16: the selected list of a run holds no identity twice, also when the
\* ranked sequence holds an identity more than once.
C16_NoDuplicateSelection ==
  \A p \in Procs :
    Selected(p) =>
      \A i, j \in 1..Len(today_papers[p]) :
        i # j => today_papers[p][i].id # today_papers[p][j].id

\* a date d is the midnight that starts day d, the reference instant is
\* utcnow half-days into day 0: d lies within [reference - window, reference]
InWindow(d, tod) == 2 * d >= tod - 2 * WindowDays /\ 2 * d <= tod

Wanted(r, tod) == r.published # Unparsable /\ InWindow(r.published, tod)

\* C17: the filter outputs exactly the records whose date parses and lies
\* within [reference - window, reference], both ends included.
C17_FilterExact ==
  \A p \in Procs :
    pc[p] = "filtered" =>
      /\ Range(base_filtered[p]) = {r \in Range(all_papers) : Wanted(r, utcnow)}
      /\ Len(base_filtered[p]) =
           Len(SelectSeq(all_papers, LAMBDA r : Wanted(r, utcnow)))

\* what does hold: the output is the records whose date parses and is not
\* before reference - window, later dates included
FilterLowerBoundOnly ==
  \A p \in Procs :
    pc[p] = "filtered" =>
      /\ Range(base_filtered[p]) =
           {r \in Range(all_papers) :
              r.published # Unparsable /\ 2 * r.published >= utcnow - 2 * WindowDays}
      /\ \A i \in 1..(Len(base_filtered[p]) - 1) :
           base_filtered[p][i].published >= base_filtered[p][i + 1].published

\* The well-formed blocks of a reply: an opening brace, members, a closing
\* brace (line breaks between them allowed), as pairs of positions.
WellFormedBlocks(c) ==
  {b \in (1..Len(c)) \X (1..Len(c)) :
     /\ b[1] < b[2]
     /\ c[b[1]] = Open
     /\ c[b[2]] = Close
     /\ \A i \in (b[1] + 1)..(b[2] - 1) : IsMember(c[i]) \/ c[i] = Newline}

\* the positions in block b of the members under the key score
ScoreKeysIn(c, b) == {i \in b[1]..b[2] : c[i].t \in {"score", "score_null"}}

\* the block gives its key score an integer (the last member under a key
\* is the one that counts)
HasIntegerScore(c, b) ==
  /\ ScoreKeysIn(c, b) # {}
  /\ \A i \in ScoreKeysIn(c, b) :
       (\A j \in ScoreKeysIn(c, b) : j <= i) => c[i].t = "score"

ScoredBlocks(c) == {b \in WellFormedBlocks(c) : HasIntegerScore(c, b)}

FirstScoredBlock(c) ==
  CHOOSE b \in ScoredBlocks(c) : \A d \in ScoredBlocks(c) : b[1] <= d[1]

BlockScore(c, b) ==
  c[CHOOSE i \in ScoreKeysIn(c, b) : \A j \in ScoreKeysIn(c, b) : j <= i].v

\* C18: for a reply that holds no well-formed block with an integer score,
\* the adapter returns no score.
C18_NoScoreNoValue ==
  (returned.done /\ ScoredBlocks(content) = {}) => returned.value = None

\* C19: for a reply that holds a well-formed block with an integer score, the
\* adapter returns the (clamped) score of the first such block, whatever
\* stands around it.
C19_FirstBlockWins ==
  (returned.done /\ ScoredBlocks(content) # {}) =>
    returned.value = Clamped(BlockScore(content, FirstScoredBlock(content)))

\* what does hold: a reply that is one object with an integer score, with
\* prose or line breaks before and after it, or inside a fence whose json tag
\* is followed by a line break, gives the clamped score
IsPadding(c) == \A i \in 1..Len(c) : c[i] \in {Prose, Newline}

SingleBlockParsed ==
  \A n \in RawScores : \A i \in 0..Len(content) :
    (/\ returned.done
     /\ i + 3 <= Len(content)
     /\ SubSeq(content, i + 1, i + 3) = Payload(n)
     /\ IsPadding(SubSeq(content, 1, i))
     /\ IsPadding(SubSeq(content, i + 4, Len(content))))
    => returned.value = Clamped(n)

\* C20: every score the adapter returns is an integer in [0,100], the
\* rater's value clamped to the nearest end, and every value of the score
\* cache, in a run and on disk, is in [0,100].
C20_ScoresInRange ==
  /\ \A r \in Responses :
       LET s == score_with_deepseek(r)
       IN s # None => r.kind = "json" /\ s \in 0..100 /\ s = Clamped(r.score)
  /\ \A p \in Procs : \A x \in DOMAIN scores[p] : scores[p][x] \in 0..100
  /\ \A x \in DOMAIN load_scores(scoresFile) : load_scores(scoresFile)[x] \in 0..100

\* the cache on disk holds a value clamped up to 0 and one clamped down to 100
C20_Witness ==
  /\ scoresFile.state = "ok"
  /\ \E p \in Procs : pc[p] = "done" /\ client[p]
  /\ \E x, y \in DOMAIN scoresFile.data :
       scoresFile.data[x] = 0 /\ scoresFile.data[y] = 100

\* the steps of a run after its scoring stage (the loop and save_scores)
PostScoring == {"rank", "save_papers", "open_seen", "dump_seen", "done"}

\* C21: once the scoring stage of a run is over, whatever step comes next,
\* a later stage or the kill of the run, leaves every score the run holds in
\* scores.json.
C21_ScoresKeptOnLaterFailure ==
  [][\A p \in Procs :
       (client[p] /\ pc[p] \in PostScoring) =>
         \A x \in DOMAIN scores[p] :
           /\ x \in DOMAIN load_scores(scoresFile')
           /\ load_scores(scoresFile')[x] = scores[p][x]]_vars

\* a run was killed after its scores were saved and before it wrote a list
\* or committed an identity
C21_Witness ==
  \E p \in Procs :
    /\ pc[p] = "crashed"
    /\ scoresFile.state = "ok"
    /\ DOMAIN scoresFile.data # {}
    /\ papersFile.state = "missing"
    /\ seenFile.state = "missing"

\* an entry whose id, title and summary are all present and not empty after
\* white space is normalized
WellFormedEntry(e) == e.id = "text" /\ e.title = "text" /\ e.summary = "text"

\* C22: an entry whose id, title or abstract is absent or empty after
\* normalization gives no record, the other entries of the feed still give
\* theirs, and nothing is raised.
C22_MalformedSkipped ==
  \A p \in Procs :
    pc[p] \in {"fetched", "raised"} =>
      /\ pc[p] = "fetched"
      /\ all_papers =
           [i \in 1..Len(SelectSeq(xml_data, WellFormedEntry)) |->
              [id |-> "text", title |-> "text", abstract |-> "text"]]

\* what does hold: a feed of well-formed entries gives one record for each,
\* in the order of the feed
WellFormedFeedParsed ==
  \A p \in Procs :
    (pc[p] \in {"fetched", "raised"}
       /\ \A i \in 1..Len(xml_data) : WellFormedEntry(xml_data[i])) =>
      /\ pc[p] = "fetched"
      /\ all_papers =
           [i \in 1..Len(xml_data) |->
              [id |-> "text", title |-> "text", abstract |-> "text"]]

\* the records of the feed that the filter keeps and the run has not seen, in
\* the order of the feed
UnseenKept(p) ==
  SelectSeq(all_papers,
            LAMBDA r : /\ r.published # Unparsable
                       /\ 2 * r.published >= utcnow - 2 * WindowDays
                       /\ r.id # EmptyId
                       /\ r.id \notin seen[p])

\* position i comes before position j: later date first, feed order for
\* equal dates
DateThenFeedOrder(c, i, j) ==
  \/ c[i].published > c[j].published
  \/ c[i].published = c[j].published /\ i < j

FirstByDate(c, n) ==
  [k \in 1..Min(n, Len(c)) |->
     c[CHOOSE i \in 1..Len(c) :
         Cardinality({j \in 1..Len(c) : DateThenFeedOrder(c, j, i)}) = k - 1]]

\* C23: a run without a rater client on an empty score cache calls no rater,
\* leaves scores.json unwritten, and selects the first K unseen records by
\* published date, newest first, records of one date in the order of the feed.
C23_DateFallback ==
  \A p \in Procs :
    (Selected(p) /\ ~client[p]) =>
      /\ asked[p] = {}
      /\ scores[p] = EmptyMap
      /\ scoresFile = NoFile(EmptyMap)
      /\ today_papers[p] = FirstByDate(UnseenKept(p), limit[p])

\* two records of one date selected in the order of the feed, which is not
\* the order of their identities
C23_Witness ==
  \E p \in Procs :
    /\ Selected(p)
    /\ ~client[p]
    /\ Len(today_papers[p]) = 2
    /\ today_papers[p] = all_papers
    /\ today_papers[p][1].published = today_papers[p][2].published
    /\ today_papers[p][1].id > today_papers[p][2].id

\* C24: after any sequence of completed runs on one calendar date, every
\* identity of the persisted seen set is in the persisted daily list of that
\* date (the seen set starts empty, so the runs added every identity it holds).
C24_SeenStaysPublished ==
  (\A p \in Procs : pc[p] \in {"idle", "done"}) =>
    load_seen_ids(seenFile) \subseteq IdsOf(papersFile.data)

\* C25: when two runs over the same stores overlap in time and both have
\* committed, seen_ids.json holds every identity either run selected and
\* scores.json holds every score either run obtained.
C25_NoLostUpdate ==
  (\A p \in Procs : pc[p] = "done") =>
    \A p \in Procs :
      /\ new_seen[p] \subseteq load_seen_ids(seenFile)
      /\ \A x \in DOMAIN scores[p] :
           /\ x \in DOMAIN load_scores(scoresFile)
           /\ load_scores(scoresFile)[x] = scores[p][x]

====
